---- MODULE Spec2Model ----
(***************************************************************************)
(* monotree: a compressed binary-radix Sparse Merkle Tree over 32-byte     *)
(* keys, stored in a content-addressed key-value backend (MemoryDB).       *)
(*                                                                         *)
(* Representation.                                                         *)
(*  - A byte is a number 0..255; a path (the bytes behind a Bits) and a    *)
(*    key are sequences of bytes.                                          *)
(*  - A serialized node is a sequence of slots, one slot per byte of the   *)
(*    Rust Vec<u8>.  A plain byte b is the slot <<b>>.  A Hash (leaf or    *)
(*    digest) is HASH_LEN slots.                                           *)
(*  - The hasher is an ideal collision-free hash: the digest of a byte     *)
(*    string is HASH_LEN slots whose first slot carries the hashed string  *)
(*    itself, so two digests are equal iff the hashed strings are equal.   *)
(*  - Option<T>: None is <<>>, Some(x) is <<x>>.                           *)
(***************************************************************************)
EXTENDS Integers, Sequences, FiniteSets, TLC

HASH_LEN == 32

\* std::mem::size_of::<BitsLen>() with BitsLen = u16
BITSLEN_SIZE == 2

None == <<>>

Some(x) == <<x>>

IsSome(o) == Len(o) > 0

IsNone(o) == Len(o) = 0

Min2(a, b) == IF a < b THEN a ELSE b

\* let x = e; K(x): e is evaluated once and its value handed on
Bind(e, K(_)) == CHOOSE y \in {K(x) : x \in {e}} : TRUE

\* plain bytes -> slots of a serialized buffer
Raw(ints) == [i \in 1..Len(ints) |-> <<ints[i]>>]

\* slots of a serialized buffer -> plain bytes
Unraw(slots) == [i \in 1..Len(slots) |-> slots[i][1]]

\* bytes[from..to) with 0-based, half-open Rust slice indices
Slice(s, from, to) == SubSeq(s, from + 1, to)

(***************************************************************************)
(* utils.rs                                                                *)
(***************************************************************************)

\* i-th bit of a byte slice, MSB first.  (i.to_u8() restricts i to 0..255,
\* which every index into a 32-byte key satisfies.)
bit(bytes, i) ==
    LET q == i \div 8
        r == i % 8
    IN  (bytes[q + 1] \div (2 ^ (7 - r))) % 2 = 1

nbytes_across(start, end) ==
    LET n == (end - (start - (start % 8))) \div 8
    IN  IF end % 8 = 0 THEN n ELSE n + 1

\* offsets whose drop starts the rest at bit 0 of its first byte
offsets_bytestart(range, n, tail) ==
    LET x == range.start + n
    IN  IF tail
        THEN [q |-> nbytes_across(range.start, x), start |-> range.start, end |-> x]
        ELSE [q |-> x \div 8, start |-> 0, end |-> range.end - range.start - n]

\* returns the byte shift q and the resulting range
offsets(range, n, tail) ==
    LET x == range.start + n
    IN  IF tail
        THEN [q |-> nbytes_across(range.start, x), start |-> range.start, end |-> x]
        ELSE [q |-> x \div 8, start |-> x % 8, end |-> range.end - 8 * (x \div 8)]

\* (0..lim).take_while(|i| bit(a, ms + i) == bit(b, ns + i)).count(): the
\* first index at which the two differ, or lim
lcp_count(a, ms, b, ns, lim) ==
    CHOOSE i \in 0..lim :
        /\ i = lim \/ bit(a, ms + i) # bit(b, ns + i)
        /\ \A j \in 0..(i - 1) : bit(a, ms + j) = bit(b, ns + j)

\* len_lcp with an off-by-one: the last bit of the shorter range is not compared
len_lcp_skiplast(a, m, b, n) ==
    LET lim == Min2(m.end - m.start, n.end - n.start)
        c == lcp_count(a, m.start, b, n.start, IF lim > 0 THEN lim - 1 ELSE 0)
    IN  IF lim > 0 /\ c = lim - 1 THEN lim ELSE c

len_lcp(a, m, b, n) ==
    lcp_count(a, m.start, b, n.start, Min2(m.end - m.start, n.end - n.start))

RECURSIVE bytes_to_int(_)
\* big-endian bytes to a number
bytes_to_int(bytes) ==
    IF Len(bytes) = 0 THEN 0
    ELSE 256 * bytes_to_int(SubSeq(bytes, 1, Len(bytes) - 1)) + bytes[Len(bytes)]

\* u16::to_be_bytes
to_be_bytes(n) == <<(n \div 256) % 256, n % 256>>

\* Ord on [u8; HASH_LEN]: lexicographic, strict
HashLess(a, b) ==
    \/ \E i \in 1..Min2(Len(a), Len(b)) :
          a[i] < b[i] /\ \A j \in 1..(i - 1) : a[j] = b[j]
    \/ Len(a) < Len(b) /\ \A j \in 1..Len(a) : a[j] = b[j]

\* the comparator handed to sort_unstable_by: a.cmp(b), or b.cmp(a) when
\* reverse, is Less
sort_less(a, b, reverse) == IF reverse THEN HashLess(b, a) ELSE HashLess(a, b)

\* core::slice::sort_unstable_by sorts a slice of up to this many elements
\* with its small sort (insertion sort, and above 20 elements sorted runs of
\* 4 or 8 merged from both ends), which leaves equal elements in the order
\* given; a longer slice goes to the quicksort, which does not
SMALL_SORT_GENERAL_THRESHOLD == 32

RECURSIVE insert_tail(_, _, _, _)
\* one step of the small sort: the index i moves left while its key is
\* strictly less than the key before it
insert_tail(sorted, slice, i, reverse) ==
    IF Len(sorted) > 0 /\ sort_less(slice[i], slice[sorted[Len(sorted)]], reverse)
    THEN Append(insert_tail(SubSeq(sorted, 1, Len(sorted) - 1), slice, i, reverse),
                sorted[Len(sorted)])
    ELSE Append(sorted, i)

RECURSIVE sort_prefix(_, _, _)
\* the first k indices in the order the small sort leaves them
sort_prefix(slice, k, reverse) ==
    IF k = 0 THEN <<>>
    ELSE insert_tail(sort_prefix(slice, k - 1, reverse), slice, k, reverse)

\* p holds every index of the slice once, and no key comes before a key
\* that the comparator puts before it: all that sort_unstable_by promises
is_sorted_order(slice, reverse, p) ==
    /\ DOMAIN p = 1..Len(slice)
    /\ \A i \in 1..Len(slice) : \E j \in 1..Len(slice) : p[j] = i
    /\ \A i, j \in 1..Len(slice) :
          i < j => ~sort_less(slice[p[j]], slice[p[i]], reverse)

\* the indices left in the order given
get_sorted_indices_unsorted(slice, reverse) == {[i \in 1..Len(slice) |-> i]}

\* the index vectors (1-based here) that get_sorted_indices can return: one
\* on a slice the small sort handles, any sorted order of the indices on a
\* longer one, where the order among equal keys is not specified
get_sorted_indices(slice, reverse) ==
    IF Len(slice) <= SMALL_SORT_GENERAL_THRESHOLD
    THEN {sort_prefix(slice, Len(slice), reverse)}
    ELSE {p \in [1..Len(slice) -> 1..Len(slice)] : is_sorted_order(slice, reverse, p)}

(***************************************************************************)
(* bits.rs                                                                 *)
(***************************************************************************)

MkBits(path, start, end) == [path |-> path, start |-> start, end |-> end]

BitsNew(bytes) == MkBits(bytes, 0, Len(bytes) * 8)

\* range.start ++ range.end ++ path, the path bytes copied as they are
BitsToBytes(b) == to_be_bytes(b.start) \o to_be_bytes(b.end) \o b.path

BitsFromBytes(bytes) ==
    MkBits(Slice(bytes, 2 * BITSLEN_SIZE, Len(bytes)),
           bytes_to_int(Slice(bytes, 0, BITSLEN_SIZE)),
           bytes_to_int(Slice(bytes, BITSLEN_SIZE, 2 * BITSLEN_SIZE)))

BitsFirst(b) == bit(b.path, b.start)

BitsLength(b) == b.end - b.start

\* shift whose take keeps no bit at all
BitsShift_emptytake(b, n, tail) ==
    LET o == offsets(b, n, tail)
    IN  IF tail
        THEN MkBits(<<>>, o.start, o.start)
        ELSE MkBits(Slice(b.path, o.q, Len(b.path)), o.start, o.end)

BitsShift(b, n, tail) ==
    LET o == offsets(b, n, tail)
    IN  IF tail
        THEN MkBits(Slice(b.path, 0, o.q), o.start, o.end)
        ELSE MkBits(Slice(b.path, o.q, Len(b.path)), o.start, o.end)

\* take(s, n) = shift(s, n, tail = true): the first n bits
BitsTake(b, n) == BitsShift(b, n, TRUE)

\* drop(s, n) = shift(s, n, tail = false): all but the first n bits
BitsDrop(b, n) == BitsShift(b, n, FALSE)

\* len_common_bits that counts whole common bytes only
len_common_bits_wholebytes(a, b) ==
    Bind(<<a, b>>, LAMBDA u :
        LET n == len_lcp(u[1].path, u[1], u[2].path, u[2])
        IN  IF n = Min2(BitsLength(u[1]), BitsLength(u[2])) THEN n ELSE 8 * (n \div 8))

len_common_bits(a, b) ==
    Bind(<<a, b>>, LAMBDA u : len_lcp(u[1].path, u[1], u[2].path, u[2]))

(***************************************************************************)
(* hasher.rs                                                               *)
(***************************************************************************)

\* a hasher with collisions, it skips the first HASH_LEN
\* bytes of its input
\* Hasher::digest: HASH_LEN slots; slot 1 carries the hashed bytes, so the
\* digest is a pure, collision-free function of the bytes
digest(bytes) == <<<<256, bytes>>>> \o [i \in 1..(HASH_LEN - 1) |-> <<256>>]

(***************************************************************************)
(* node.rs                                                                 *)
(***************************************************************************)

Unit(hash, bits) == [hash |-> hash, bits |-> bits]

Soft(cell) == [kind |-> "Soft", l |-> cell, r |-> None]

Hard(lc, rc) == [kind |-> "Hard", l |-> lc, r |-> rc]

\* unreachable!(): the call panics
Unreachable == [kind |-> "Unreachable", l |-> None, r |-> None]

\* Node::new without the arm for a lone right cell
NodeNew_noright(lc, rc) ==
    IF IsSome(lc) /\ IsNone(rc) THEN Soft(lc)
    ELSE IF IsSome(lc) /\ IsSome(rc) THEN Hard(lc, rc)
    ELSE Unreachable

NodeNew(lc, rc) ==
    IF IsSome(lc) /\ IsNone(rc) THEN Soft(lc)
    ELSE IF IsNone(lc) /\ IsSome(rc) THEN Soft(rc)
    ELSE IF IsSome(lc) /\ IsSome(rc) THEN Hard(lc, rc)
    ELSE Unreachable

\* one cell of a serialized node: its unit and the offset just behind it
parse_bytes(bytes, right) ==
    LET len_bytes == Len(bytes)
        len_bits == BITSLEN_SIZE
        offset_hash == IF right THEN 0 ELSE HASH_LEN
        hash == IF right THEN Slice(bytes, len_bytes - HASH_LEN, len_bytes)
                         ELSE Slice(bytes, 0, HASH_LEN)
        start == bytes_to_int(Unraw(Slice(bytes, offset_hash, offset_hash + len_bits)))
        end == bytes_to_int(Unraw(Slice(bytes, offset_hash + len_bits,
                                        offset_hash + 2 * len_bits)))
        offset_bits == nbytes_across(start, end)
    IN  [cell |-> Some(Unit(hash,
                            MkBits(Unraw(Slice(bytes, offset_hash + 2 * len_bits,
                                               offset_hash + 2 * len_bits + offset_bits)),
                                   start, end))),
         size |-> offset_hash + 2 * len_bits + offset_bits]

\* the tag is the last byte: 0x00 Soft, 0x01 Hard
NodeFromBytes(bytes) ==
    IF Len(bytes) > 0 /\ bytes[Len(bytes)] = <<0>>
    THEN Soft(parse_bytes(Slice(bytes, 0, Len(bytes) - 1), FALSE).cell)
    ELSE IF Len(bytes) > 0 /\ bytes[Len(bytes)] = <<1>>
    THEN LET lp == parse_bytes(bytes, FALSE)
             rp == parse_bytes(Slice(bytes, lp.size, Len(bytes) - 1), TRUE)
         IN  Hard(lp.cell, rp.cell)
    ELSE Unreachable

\* cells_from_bytes without the swap: the cells of a Hard node are never swapped
cells_from_bytes_noswap(bytes, right) ==
    LET node == NodeFromBytes(bytes)
    IN  IF node.kind = "Soft" THEN <<node.l, None>> ELSE <<node.l, node.r>>

\* the pursued cell first: a Hard node's cells are swapped when the key's
\* bit is 1
cells_from_bytes(bytes, right) ==
    LET node == NodeFromBytes(bytes)
    IN  IF node.kind = "Soft" THEN <<node.l, None>>
        ELSE IF right THEN <<node.r, node.l>>
        ELSE <<node.l, node.r>>

\* Soft: hash ++ bits ++ 0x00.  Hard: the cell whose path starts with bit 0
\* first, as hash ++ bits, then the other as bits ++ hash, then 0x01
\* to_bytes that writes the cells of a Hard node in the order given
NodeToBytes_noswap(node) ==
    IF node.kind = "Soft"
    THEN node.l[1].hash \o Raw(BitsToBytes(node.l[1].bits)) \o Raw(<<0>>)
    ELSE node.l[1].hash \o Raw(BitsToBytes(node.l[1].bits))
            \o Raw(BitsToBytes(node.r[1].bits)) \o node.r[1].hash \o Raw(<<1>>)

NodeToBytes(node) ==
    IF node.kind = "Soft"
    THEN node.l[1].hash \o Raw(BitsToBytes(node.l[1].bits)) \o Raw(<<0>>)
    ELSE LET swap == ~BitsFirst(node.r[1].bits)
             lu == IF swap THEN node.r[1] ELSE node.l[1]
             ru == IF swap THEN node.l[1] ELSE node.r[1]
         IN  lu.hash \o Raw(BitsToBytes(lu.bits)) \o Raw(BitsToBytes(ru.bits))
                \o ru.hash \o Raw(<<1>>)

(***************************************************************************)
(* database.rs: MemCache and MemoryDB.  A store value st is the record     *)
(* [db, map, set, on] of MemoryDB.db, batch.map, batch.set and batch_on.   *)
(***************************************************************************)

EmptyMap == [k \in {} |-> <<>>]

MapInsert(m, k, v) == (k :> v) @@ m

MapRemove(m, k) == [x \in DOMAIN m \ {k} |-> m[x]]

MemoryDBNew == [db |-> EmptyMap, map |-> EmptyMap, set |-> {}, on |-> FALSE]

\* contains that finds nothing in the cache
MemCacheContains_never(st, key) == FALSE

MemCacheContains(st, key) == key \notin st.set /\ key \in DOMAIN st.map

MemCacheGet(st, key) == IF key \in DOMAIN st.map THEN Some(st.map[key]) ELSE None

\* get that never looks into the open batch
DbGet_storeonly(st, key) ==
    IF key \in DOMAIN st.db THEN Some(st.db[key]) ELSE None

DbGet(st, key) ==
    IF st.on /\ MemCacheContains(st, key) THEN MemCacheGet(st, key)
    ELSE IF key \in DOMAIN st.db THEN Some(st.db[key])
    ELSE None

\* put that leaves the key in the delete-set of the open batch
DbPut_keepdeleted(st, key, value) ==
    IF st.on
    THEN [st EXCEPT !.map = MapInsert(st.map, key, value)]
    ELSE [st EXCEPT !.db = MapInsert(st.db, key, value)]

DbPut(st, key, value) ==
    IF st.on
    THEN [st EXCEPT !.map = MapInsert(st.map, key, value), !.set = st.set \ {key}]
    ELSE [st EXCEPT !.db = MapInsert(st.db, key, value)]

DbDelete(st, key) ==
    IF st.on
    THEN [st EXCEPT !.set = st.set \cup {key}]
    ELSE [st EXCEPT !.db = MapRemove(st.db, key)]

init_batch(st) ==
    IF ~st.on
    THEN [st EXCEPT !.map = EmptyMap, !.set = {}, !.on = TRUE]
    ELSE st

\* finish_batch that closes the batch and drops what is pending
finish_batch_discard(st) ==
    IF st.on
    THEN [st EXCEPT !.map = EmptyMap, !.set = {}, !.on = FALSE]
    ELSE st

\* the pending puts go to the store first, then the pending deletes
finish_batch(st) ==
    IF st.on
    THEN [db |-> [k \in (DOMAIN st.db \cup DOMAIN st.map) \ st.set |->
                    IF k \in DOMAIN st.map THEN st.map[k] ELSE st.db[k]],
          map |-> EmptyMap, set |-> {}, on |-> FALSE]
    ELSE st

\* RocksDB (feature db_rocksdb; Sled has the same shape): the store, a
\* MemCache that get, put and delete keep up to date whether a batch is open
\* or not, the WriteBatch of the open batch, and batch_on
RocksDBNew ==
    [db |-> EmptyMap, map |-> EmptyMap, set |-> {}, on |-> FALSE, batch |-> <<>>]

MemCachePut(st, key, value) ==
    [st EXCEPT !.map = MapInsert(st.map, key, value), !.set = st.set \ {key}]

MemCacheDelete(st, key) == [st EXCEPT !.set = st.set \cup {key}]

MemCacheClear(st) == [st EXCEPT !.map = EmptyMap, !.set = {}]

RECURSIVE WriteBatchApply(_, _)
\* DB::write(batch): the operations of the batch in the order recorded
WriteBatchApply(store, batch) ==
    IF Len(batch) = 0 THEN store
    ELSE LET w == Head(batch)
         IN  WriteBatchApply(IF w[1] = "put" THEN MapInsert(store, w[2], w[3])
                             ELSE MapRemove(store, w[2]),
                             Tail(batch))

\* [st, ret]: get fills the cache with what it read from the store
RocksGet(st, key) ==
    IF MemCacheContains(st, key) THEN [st |-> st, ret |-> MemCacheGet(st, key)]
    ELSE IF key \in DOMAIN st.db
    THEN [st |-> MemCachePut(st, key, st.db[key]), ret |-> Some(st.db[key])]
    ELSE [st |-> st, ret |-> None]

RocksPut(st, key, value) ==
    LET c == MemCachePut(st, key, value)
    IN  IF st.on
        THEN [c EXCEPT !.batch = Append(st.batch, <<"put", key, value>>)]
        ELSE [c EXCEPT !.db = MapInsert(st.db, key, value)]

RocksDelete(st, key) ==
    LET c == MemCacheDelete(st, key)
    IN  IF st.on
        THEN [c EXCEPT !.batch = Append(st.batch, <<"delete", key>>)]
        ELSE [c EXCEPT !.db = MapRemove(st.db, key)]

RocksInitBatch(st) ==
    IF ~st.on
    THEN [MemCacheClear(st) EXCEPT !.batch = <<>>, !.on = TRUE]
    ELSE st

\* the batch is written and taken; the cache is left as it is
RocksFinishBatch(st) ==
    [st EXCEPT !.on = FALSE,
               !.db = IF Len(st.batch) # 0 THEN WriteBatchApply(st.db, st.batch)
                      ELSE st.db,
               !.batch = <<>>]

(***************************************************************************)
(* tree.rs.  An operation on the tree takes the store and returns          *)
(* [st, ret, ok]: the store after it, its Option result, and ok = FALSE    *)
(* when it panicked (an expect() on a missing node, unreachable!()).       *)
(***************************************************************************)

Ok(st, ret) == [st |-> st, ret |-> ret, ok |-> TRUE]

Panic(st) == [st |-> st, ret |-> None, ok |-> FALSE]

\* b"_______monotree::headroot_______"
ROOT_KEY ==
    Raw(<<95, 95, 95, 95, 95, 95, 95,
          109, 111, 110, 111, 116, 114, 101, 101, 58, 58,
          104, 101, 97, 100, 114, 111, 111, 116,
          95, 95, 95, 95, 95, 95, 95>>)

\* copy_from_slice into a [u8; HASH_LEN]: the lengths must agree
slice_to_hash(slice) == [i \in 1..HASH_LEN |-> slice[i]]

get_headroot(st) ==
    LET headroot == DbGet(st, ROOT_KEY)
    IN  IF IsNone(headroot) THEN Ok(st, None)
        ELSE IF Len(headroot[1]) # HASH_LEN THEN Panic(st)
        ELSE Ok(st, Some(slice_to_hash(headroot[1])))

\* only Some(root) is written; None leaves the store as it is
set_headroot(st, headroot) ==
    IF IsSome(headroot) THEN DbPut(st, ROOT_KEY, headroot[1]) ELSE st

\* put_node that also records the new node as the head root
put_node_tracking(st, node) ==
    IF node.kind = "Unreachable" THEN Panic(st)
    ELSE LET bytes == NodeToBytes(node)
             hash == digest(bytes)
         IN  Ok(DbPut(DbPut(st, hash, bytes), ROOT_KEY, hash), Some(hash))

\* put_node that hashes the node without its tag byte
put_node_hashnotag(st, node) ==
    IF node.kind = "Unreachable" THEN Panic(st)
    ELSE LET bytes == NodeToBytes(node)
             hash == digest(Slice(bytes, 0, Len(bytes) - 1))
         IN  Ok(DbPut(st, hash, bytes), Some(hash))

put_node(st, node) ==
    IF node.kind = "Unreachable" THEN Panic(st)
    ELSE LET bytes == NodeToBytes(node)
             hash == digest(bytes)
         IN  Ok(DbPut(st, hash, bytes), Some(hash))

put_replacement_noright(st, bits, leaf, right) ==
    put_node(st, NodeNew(Some(Unit(leaf, bits)), None))

\* the replacement arm of put
put_replacement(st, bits, leaf, right) ==
    put_node(st, NodeNew(Some(Unit(leaf, bits)), right))

RECURSIVE put(_, _, _, _)
put(st, root, bits, leaf) ==
    Bind(DbGet(st, root), LAMBDA got :
    IF IsNone(got) THEN Panic(st)
    ELSE
    Bind(cells_from_bytes(got[1], BitsFirst(bits)), LAMBDA cells :
    LET left == cells[1]
        right == cells[2]
    IN  IF IsNone(left) THEN Panic(st)
        ELSE
        Bind(len_common_bits(left[1].bits, bits), LAMBDA n :
        LET unit == left[1]
        IN  IF n = 0
            THEN \* set-aside
                 put_node(st, NodeNew(left, Some(Unit(leaf, bits))))
            ELSE IF n = BitsLength(bits)
            THEN \* replacement
                 put_replacement(st, bits, leaf, right)
            ELSE IF n = BitsLength(unit.bits)
            THEN \* consume & pass-over
                 Bind(put(st, unit.hash, BitsDrop(bits, n), leaf), LAMBDA sub :
                 IF ~sub.ok \/ IsNone(sub.ret) THEN Panic(sub.st)
                 ELSE put_node(sub.st,
                         NodeNew(Some(Unit(sub.ret[1], unit.bits)), right)))
            ELSE \* split-node
                 Bind(put_node(st,
                         NodeNew(Some(Unit(unit.hash, BitsDrop(unit.bits, n))),
                                 Some(Unit(leaf, BitsDrop(bits, n))))), LAMBDA inner :
                 IF ~inner.ok \/ IsNone(inner.ret) THEN Panic(inner.st)
                 ELSE put_node(inner.st,
                         NodeNew(Some(Unit(inner.ret[1], BitsTake(unit.bits, n))),
                                 right))))))

\* insert that deletes the node of the root it replaces
insert_purge(st, root, key, leaf) ==
    LET i == IF IsNone(root)
             THEN put_node(st, NodeNew(Some(Unit(leaf, BitsNew(key))), None))
             ELSE put(st, root[1], BitsNew(key), leaf)
    IN  IF IsSome(root) /\ i.ok THEN [i EXCEPT !.st = DbDelete(i.st, root[1])] ELSE i

insert(st, root, key, leaf) ==
    IF IsNone(root)
    THEN put_node(st, NodeNew(Some(Unit(leaf, BitsNew(key))), None))
    ELSE put(st, root[1], BitsNew(key), leaf)

RECURSIVE find_key(_, _, _)
find_key(st, root, bits) ==
    Bind(DbGet(st, root), LAMBDA got :
    IF IsNone(got) THEN Panic(st)
    ELSE
    Bind(cells_from_bytes(got[1], BitsFirst(bits))[1], LAMBDA cell :
    IF IsNone(cell) THEN Panic(st)
    ELSE
    Bind(len_common_bits(cell[1].bits, bits), LAMBDA n :
    LET unit == cell[1]
    IN  IF n = BitsLength(bits) THEN Ok(st, Some(unit.hash))
        ELSE IF n = BitsLength(unit.bits)
        THEN find_key(st, unit.hash, BitsDrop(bits, n))
        ELSE Ok(st, None))))

get(st, root, key) ==
    IF IsNone(root) THEN Ok(st, None) ELSE find_key(st, root[1], BitsNew(key))

RECURSIVE delete_key(_, _, _)
delete_key(st, root, bits) ==
    Bind(DbGet(st, root), LAMBDA got :
    IF IsNone(got) THEN Panic(st)
    ELSE
    Bind(cells_from_bytes(got[1], BitsFirst(bits)), LAMBDA cells :
    LET left == cells[1]
        right == cells[2]
    IN  IF IsNone(left) THEN Panic(st)
        ELSE
        Bind(len_common_bits(left[1].bits, bits), LAMBDA n :
        LET unit == left[1]
        IN  IF n = BitsLength(bits)
            THEN IF IsSome(right) THEN put_node(st, NodeNew(None, right))
                 ELSE Ok(st, None)
            ELSE IF n = BitsLength(unit.bits)
            THEN Bind(delete_key(st, unit.hash, BitsDrop(bits, n)), LAMBDA sub :
                 IF ~sub.ok THEN sub
                 ELSE IF IsNone(sub.ret) /\ IsNone(right) THEN Ok(sub.st, None)
                 ELSE IF IsNone(sub.ret)
                 THEN put_node(sub.st, NodeNew(None, right))
                 ELSE put_node(sub.st,
                         NodeNew(Some(Unit(sub.ret[1], unit.bits)), right)))
            ELSE Ok(st, None))))

\* remove handing back the old root when delete_key yields no root
remove_keeproot(st, root, key) ==
    IF IsNone(root) THEN Ok(st, None)
    ELSE Bind(delete_key(st, root[1], BitsNew(key)), LAMBDA r :
         IF r.ok /\ IsNone(r.ret) THEN Ok(r.st, root) ELSE r)

remove(st, root, key) ==
    IF IsNone(root) THEN Ok(st, None) ELSE delete_key(st, root[1], BitsNew(key))

prepare(st) == init_batch(st)

\* commit that does nothing
commit_skip(st) == st

commit(st) == finish_batch(st)

RECURSIVE insert_each(_, _, _, _, _)
\* for i in indices { root = self.insert(root, keys[i], leaves[i])? }
insert_each(st, root, keys, leaves, indices) ==
    IF Len(indices) = 0 THEN Ok(st, root)
    ELSE IF Head(indices) > Len(leaves) THEN Panic(st) \* leaves[i] out of bounds
    ELSE Bind(insert(st, root, keys[Head(indices)], leaves[Head(indices)]), LAMBDA r :
         IF ~r.ok THEN r
         ELSE insert_each(r.st, r.ret, keys, leaves, Tail(indices)))

\* indices is the vector get_sorted_indices(keys, false) returned
inserts(st, root, keys, leaves, indices) ==
    Bind(insert_each(prepare(st), root, keys, leaves, indices),
         LAMBDA r : IF ~r.ok THEN r ELSE Ok(commit(r.st), r.ret))

RECURSIVE remove_each(_, _, _, _)
\* for i in indices { root = self.remove(root, keys[i])? }
remove_each(st, root, keys, indices) ==
    IF Len(indices) = 0 THEN Ok(st, root)
    ELSE Bind(remove(st, root, keys[Head(indices)]), LAMBDA r :
         IF ~r.ok THEN r
         ELSE remove_each(r.st, r.ret, keys, Tail(indices)))

\* indices is the vector get_sorted_indices(keys, false) returned
removes(st, root, keys, indices) ==
    Bind(remove_each(prepare(st), root, keys, indices),
         LAMBDA r : IF ~r.ok THEN r ELSE Ok(commit(r.st), r.ret))

\* encode_proof with the tag forgotten: the right-hand cut loses the tag byte
encode_proof_notag(bytes, right) ==
    LET node == NodeFromBytes(bytes)
    IN  IF node.kind = "Soft" THEN <<FALSE, Slice(bytes, HASH_LEN, Len(bytes))>>
        ELSE IF right
        THEN <<TRUE, Slice(bytes, 0, Len(bytes) - HASH_LEN - 1)>>
        ELSE <<FALSE, Slice(bytes, HASH_LEN, Len(bytes))>>

\* the node with the pursued hash cut out, and whether it was the right one
encode_proof(bytes, right) ==
    LET node == NodeFromBytes(bytes)
    IN  IF node.kind = "Soft" THEN <<FALSE, Slice(bytes, HASH_LEN, Len(bytes))>>
        ELSE IF right
        THEN <<TRUE, Slice(bytes, 0, Len(bytes) - HASH_LEN - 1) \o Raw(<<1>>)>>
        ELSE <<FALSE, Slice(bytes, HASH_LEN, Len(bytes))>>

RECURSIVE gen_proof(_, _, _, _)
gen_proof(st, root, bits, proof) ==
    Bind(DbGet(st, root), LAMBDA got :
    IF IsNone(got) THEN Panic(st)
    ELSE
    Bind(cells_from_bytes(got[1], BitsFirst(bits))[1], LAMBDA cell :
    IF IsNone(cell) THEN Panic(st)
    ELSE
    Bind(len_common_bits(cell[1].bits, bits), LAMBDA n :
    LET bytes == got[1]
        unit == cell[1]
    IN  IF n = BitsLength(bits)
        THEN Ok(st, Some(Append(proof, encode_proof(bytes, BitsFirst(bits)))))
        ELSE IF n = BitsLength(unit.bits)
        THEN gen_proof(st, unit.hash, BitsDrop(bits, n),
                       Append(proof, encode_proof(bytes, BitsFirst(bits))))
        ELSE Ok(st, None))))

get_merkle_proof(st, root, key) ==
    IF IsNone(root) THEN Ok(st, None) ELSE gen_proof(st, root[1], BitsNew(key), <<>>)

RECURSIVE verify_fold(_, _, _)
\* proof.iter().rev(): the frames from the leaf up to the root.  The result
\* is [ok, ret]: ok = FALSE when the fold panicked, which it does at a
\* right-hand frame with an empty cut (l - 1 underflows in cut[..l - 1])
verify_fold(hash, proof, i) ==
    IF i = 0 THEN [ok |-> TRUE, ret |-> hash]
    ELSE LET right == proof[i][1]
             cut == proof[i][2]
             l == Len(cut)
         IN  IF right /\ l = 0 THEN [ok |-> FALSE, ret |-> hash]
             ELSE LET o == IF right
                           THEN Slice(cut, 0, l - 1) \o hash \o Slice(cut, l - 1, l)
                           ELSE hash \o cut
                  IN  verify_fold(digest(o), proof, i - 1)

\* [ok, ret]: ret is the bool returned, ok = FALSE when the call panicked
\* (in the fold, or at root.expect() on a root of None)
verify_proof(root, leaf, proof) ==
    IF IsNone(proof) THEN [ok |-> TRUE, ret |-> FALSE]
    ELSE LET f == verify_fold(leaf, proof[1], Len(proof[1]))
         IN  IF ~f.ok \/ IsNone(root) THEN [ok |-> FALSE, ret |-> FALSE]
             ELSE [ok |-> TRUE, ret |-> root[1] = f.ret]

(***************************************************************************)
(* The state machine: one tree handle (Monotree<MemoryDB, H>) and the      *)
(* caller that chains the returned roots, as the integration tests do.     *)
(***************************************************************************)

\* bound of the model: the number of keys a run hands to the tree (a single
\* operation takes one, a batch of n keys takes n)
MaxOps == 3

\* keys: all-zero; last bit set; first bit set; bit 7 set
K0 == [i \in 1..HASH_LEN |-> 0]

K1 == [i \in 1..HASH_LEN |-> IF i = HASH_LEN THEN 1 ELSE 0]

K2 == [i \in 1..HASH_LEN |-> IF i = 1 THEN 128 ELSE 0]

K3 == [i \in 1..HASH_LEN |-> IF i = 1 THEN 1 ELSE 0]

Keys == {K0, K1, K2, K3}

LA == Raw([i \in 1..HASH_LEN |-> 17])

LB == Raw([i \in 1..HASH_LEN |-> 170])

Leaves == {LA, LB}

\* the leaves of a batch, by position (leaves[i] goes with keys[i])
BatchLeaves(n) == [i \in 1..n |-> IF i % 2 = 1 THEN LA ELSE LB]

KeySeqs(n) == UNION {[1..m -> Keys] : m \in 1..n}

VARIABLES
    db,         \* MemoryDB.db: the backing store
    batch_map,  \* MemoryDB.batch.map: pending puts
    batch_set,  \* MemoryDB.batch.set: pending deletes
    batch_on,   \* MemoryDB.batch_on
    wbatch,     \* RocksDB.batch: the WriteBatch (the RocksDB runs only, where
                \* batch_map and batch_set are RocksDB.cache)
    root,       \* the root the caller holds (Option<Hash>)
    panicked,   \* an operation panicked: the run is over
    kv,         \* ghost: the key-leaf pairs the caller has put and not removed
    clean,      \* ghost: every key removed so far was present when removed,
                \*        and no batch named a key twice
    hist,       \* ghost: the operations so far
    nops        \* ghost: number of keys handed to the tree so far

vars == <<db, batch_map, batch_set, batch_on, wbatch, root, panicked, kv, clean, hist, nops>>

St == [db |-> db, map |-> batch_map, set |-> batch_set, on |-> batch_on]

OpRec(op, keys, leaves, before) ==
    [op |-> op, keys |-> keys, leaves |-> leaves, before |-> before]

RECURSIVE KvPutAll(_, _, _, _)
\* the pairs of a batch put in the order inserts visits them: for a key
\* named twice the pair visited last stays
KvPutAll(m, keys, leaves, indices) ==
    IF Len(indices) = 0 THEN m
    ELSE KvPutAll(MapInsert(m, keys[Head(indices)], leaves[Head(indices)]),
                  keys, leaves, Tail(indices))

Range(s) == {s[i] : i \in DOMAIN s}

Distinct(s) == \A i, j \in DOMAIN s : s[i] = s[j] => i = j

Init ==
    /\ db = MemoryDBNew.db
    /\ batch_map = MemoryDBNew.map
    /\ batch_set = MemoryDBNew.set
    /\ batch_on = MemoryDBNew.on
    /\ wbatch = <<>>
    /\ root = None
    /\ panicked = FALSE
    /\ kv = EmptyMap
    /\ clean = TRUE
    /\ hist = <<>>
    /\ nops = 0

\* the handle after an operation that returned r, the caller keeping the
\* returned root
Step(r, rec, kv2, clean2) ==
    /\ db' = r.st.db
    /\ batch_map' = r.st.map
    /\ batch_set' = r.st.set
    /\ batch_on' = r.st.on
    /\ wbatch' = IF "batch" \in DOMAIN r.st THEN r.st.batch ELSE wbatch
    /\ panicked' = ~r.ok
    /\ root' = IF r.ok THEN r.ret ELSE root
    /\ kv' = kv2
    /\ clean' = clean2
    /\ hist' = Append(hist, rec)
    /\ nops' = nops + IF Len(rec.keys) = 0 THEN 1 ELSE Len(rec.keys)

Insert(k, v) ==
    /\ ~panicked /\ nops < MaxOps
    /\ \E r \in {insert(St, root, k, v)} :
          Step(r, OpRec("insert", <<k>>, <<v>>, root), MapInsert(kv, k, v), clean)

Remove(k) ==
    /\ ~panicked /\ nops < MaxOps
    /\ \E r \in {remove(St, root, k)} :
          Step(r, OpRec("remove", <<k>>, <<>>, root), MapRemove(kv, k),
               clean /\ k \in DOMAIN kv)

Inserts(ks) ==
    /\ ~panicked /\ nops + Len(ks) <= MaxOps
    /\ \E vs \in {BatchLeaves(Len(ks))} : \E idx \in get_sorted_indices(ks, FALSE) :
       \E r \in {inserts(St, root, ks, vs, idx)} :
          Step(r, OpRec("inserts", ks, vs, root), KvPutAll(kv, ks, vs, idx),
               clean /\ Distinct(ks))

Removes(ks) ==
    /\ ~panicked /\ nops + Len(ks) <= MaxOps
    /\ \E idx \in get_sorted_indices(ks, FALSE) :
       \E r \in {removes(St, root, ks, idx)} :
          Step(r, OpRec("removes", ks, <<>>, root),
               [x \in DOMAIN kv \ Range(ks) |-> kv[x]],
               clean /\ Distinct(ks) /\ Range(ks) \subseteq DOMAIN kv)

Prepare ==
    /\ ~panicked /\ nops < MaxOps
    /\ Step(Ok(prepare(St), root), OpRec("prepare", <<>>, <<>>, root), kv, clean)

Commit ==
    /\ ~panicked /\ nops < MaxOps
    /\ Step(Ok(commit(St), root), OpRec("commit", <<>>, <<>>, root), kv, clean)

Next ==
    \/ \E k \in Keys, v \in Leaves : Insert(k, v)
    \/ \E k \in Keys : Remove(k)
    \/ \E ks \in KeySeqs(MaxOps) : Inserts(ks)
    \/ \E ks \in KeySeqs(MaxOps) : Removes(ks)
    \/ Prepare
    \/ Commit

Spec == Init /\ [][Next]_vars

\* inserts called with one leaf less than keys: the loop panics at the key
\* whose leaf is missing, after the inserts before it and before commit; the
\* caller catches the unwind and keeps the handle and its root
InsertsAborted(ks) ==
    /\ ~panicked /\ Len(ks) >= 2 /\ nops + Len(ks) <= MaxOps
    /\ \E vs \in {BatchLeaves(Len(ks) - 1)} : \E idx \in get_sorted_indices(ks, FALSE) :
       \E r \in {inserts(St, root, ks, vs, idx)} :
          /\ ~r.ok
          /\ Step([r EXCEPT !.ok = TRUE, !.ret = root],
                  OpRec("inserts_aborted", ks, vs, root), kv, clean)

NextAbort ==
    \/ Next
    \/ \E ks \in KeySeqs(MaxOps) : InsertsAborted(ks)

SpecAbort == Init /\ [][NextAbort]_vars

\* The tree with its head root: the caller may publish a root at any time.

\* what the caller passes to set_headroot: nothing, the root it holds, or
\* some other hash
HeadChoices == {"none", "held", "other"}

HeadArg(c) == IF c = "none" THEN None ELSE IF c = "held" THEN root ELSE Some(LA)

SetHeadroot(c) ==
    /\ ~panicked /\ nops < MaxOps
    /\ \E r \in {HeadArg(c)} :
          Step(Ok(set_headroot(St, r), root), OpRec("set_headroot", <<>>, r, root),
               kv, clean)

NextHead ==
    \/ Next
    \/ \E c \in HeadChoices : SetHeadroot(c)

SpecHead == Init /\ [][NextHead]_vars

\* A caller whose keys and leaves include the bytes 00 00 01 00 repeated,
\* which are also the bytes of the range 0..256 in a serialized path.

KW == [i \in 1..HASH_LEN |-> IF i % 4 = 3 THEN 1 ELSE 0]

LW == Raw(KW)

ProofKeys == {K0, K2, KW}

ProofLeaves == {LA, LW}

NextProof ==
    \/ \E k \in ProofKeys, v \in ProofLeaves : Insert(k, v)
    \/ \E k \in ProofKeys : Remove(k)

SpecProof == Init /\ [][NextProof]_vars

\* The backend alone: a caller of the Database trait on a MemoryDB.

\* bound of the backend runs: the number of backend calls
MaxDbOps == 5

DbKeys == {Raw(K0), Raw(K1)}

DbValues == {Raw(<<1>>), Raw(<<2>>)}

BackendPut(k, v) ==
    /\ ~panicked /\ nops < MaxDbOps
    /\ Step(Ok(DbPut(St, k, v), root), OpRec("put", <<k>>, <<v>>, root), kv, clean)

BackendDelete(k) ==
    /\ ~panicked /\ nops < MaxDbOps
    /\ Step(Ok(DbDelete(St, k), root), OpRec("delete", <<k>>, <<>>, root), kv, clean)

BackendInitBatch ==
    /\ ~panicked /\ nops < MaxDbOps
    /\ Step(Ok(init_batch(St), root), OpRec("init_batch", <<>>, <<>>, root), kv, clean)

BackendFinishBatch ==
    /\ ~panicked /\ nops < MaxDbOps
    /\ Step(Ok(finish_batch(St), root), OpRec("finish_batch", <<>>, <<>>, root), kv, clean)

NextDb ==
    \/ \E k \in DbKeys, v \in DbValues : BackendPut(k, v)
    \/ \E k \in DbKeys : BackendDelete(k)
    \/ BackendInitBatch
    \/ BackendFinishBatch

SpecDb == Init /\ [][NextDb]_vars

\* The backend alone: a caller of the Database trait on a RocksDB.

RSt == [db |-> db, map |-> batch_map, set |-> batch_set, on |-> batch_on,
        batch |-> wbatch]

RocksBackendGet(k) ==
    /\ ~panicked /\ nops < MaxDbOps
    /\ Step(Ok(RocksGet(RSt, k).st, root), OpRec("get", <<k>>, <<>>, root), kv, clean)

RocksBackendPut(k, v) ==
    /\ ~panicked /\ nops < MaxDbOps
    /\ Step(Ok(RocksPut(RSt, k, v), root), OpRec("put", <<k>>, <<v>>, root), kv, clean)

RocksBackendDelete(k) ==
    /\ ~panicked /\ nops < MaxDbOps
    /\ Step(Ok(RocksDelete(RSt, k), root), OpRec("delete", <<k>>, <<>>, root), kv, clean)

RocksBackendInitBatch ==
    /\ ~panicked /\ nops < MaxDbOps
    /\ Step(Ok(RocksInitBatch(RSt), root), OpRec("init_batch", <<>>, <<>>, root),
            kv, clean)

RocksBackendFinishBatch ==
    /\ ~panicked /\ nops < MaxDbOps
    /\ Step(Ok(RocksFinishBatch(RSt), root), OpRec("finish_batch", <<>>, <<>>, root),
            kv, clean)

NextRocks ==
    \/ \E k \in DbKeys : RocksBackendGet(k)
    \/ \E k \in DbKeys, v \in DbValues : RocksBackendPut(k, v)
    \/ \E k \in DbKeys : RocksBackendDelete(k)
    \/ RocksBackendInitBatch
    \/ RocksBackendFinishBatch

SpecRocks == Init /\ [][NextRocks]_vars

(***************************************************************************)
(* Properties                                                              *)
(***************************************************************************)

\* the operations so far, by name
OpNames == [i \in 1..Len(hist) |-> hist[i].op]

LastOp == IF Len(hist) = 0 THEN "none" ELSE hist[Len(hist)].op

\* get and get_merkle_proof at the root the caller holds
GetAt(k) == get(St, root, k)

ProofAt(k) == get_merkle_proof(St, root, k)

\* the keys present in the tree at the caller's root
PresentKeys == {k \in Keys : IsSome(GetAt(k).ret)}

\* C1: after inserts of distinct keys (single calls chained from the empty
\* root, or batches), and removes of present keys, get returns for every key
\* the caller has put the leaf it put last.
C1_GetReturnsInsertedLeaf ==
    clean => \A k \in DOMAIN kv : LET g == GetAt(k) IN g.ok /\ g.ret = Some(kv[k])

\* a tree of three keys built by inserts alone, found through two or three
\* nodes
C1_Witness ==
    /\ clean /\ DOMAIN kv = {K0, K1, K3}
    /\ Range(OpNames) \subseteq {"insert", "inserts"}
    /\ \A k \in DOMAIN kv : GetAt(k).ret = Some(kv[k])

\* C2: a key that is not in the tree has no leaf and no proof, and neither
\* lookup fails; get_merkle_proof yields a proof exactly when get yields a
\* leaf.
C2_AbsentKeyNoLeafNoProof ==
    \A k \in Keys :
        LET g == GetAt(k)
            p == ProofAt(k)
        IN  /\ g.ok /\ p.ok
            /\ k \notin DOMAIN kv => (IsNone(g.ret) /\ IsNone(p.ret))
            /\ IsSome(p.ret) <=> IsSome(g.ret)

\* K1 is absent from the tree {K0, K3}, built by inserts: its lookup passes
\* the root and stops at the second node
C2_Witness ==
    /\ DOMAIN kv = {K0, K3} /\ Range(OpNames) \subseteq {"insert", "inserts"}
    /\ IsNone(GetAt(K1).ret) /\ IsNone(ProofAt(K1).ret)
    /\ IsSome(ProofAt(K0).ret)

\* verify_proof returns true
Accepts(r, leaf, proof) ==
    LET b == verify_proof(r, leaf, proof) IN b.ok /\ b.ret

\* verify_proof returns false
Rejects(r, leaf, proof) ==
    LET b == verify_proof(r, leaf, proof) IN b.ok /\ ~b.ret

\* C3: the proof generated for a present key verifies against the root with
\* the key's leaf.
C3_ProofVerifies ==
    \A k \in Keys :
        LET g == GetAt(k)
        IN  IsSome(g.ret) => Accepts(root, g.ret[1], ProofAt(k).ret)

\* a tree of three keys in which some key has a proof of three frames, which
\* verifies
C3_Witness ==
    /\ clean /\ DOMAIN kv = {K0, K1, K3}
    /\ \E k \in PresentKeys :
          LET p == ProofAt(k).ret
          IN  /\ IsSome(p) /\ Len(p[1]) >= 3
              /\ Accepts(root, GetAt(k).ret[1], p)

\* one slot of a cut replaced by another value
TamperSlot(slot) == IF slot = <<0>> THEN <<1>> ELSE <<0>>

\* the proofs that differ from p in the flag of one frame
FlagFlipped(p) == {[p EXCEPT ![i] = <<~p[i][1], p[i][2]>>] : i \in 1..Len(p)}

\* the proofs that differ from p in one byte of the cut of one frame
ByteFlipped(p) ==
    UNION {{[p EXCEPT ![i] = <<p[i][1],
                               [p[i][2] EXCEPT ![j] = TamperSlot(p[i][2][j])]>>] :
                j \in 1..Len(p[i][2])} : i \in 1..Len(p)}

\* the proofs that differ from p in the cut of one frame, which is empty
CutEmptied(p) == {[p EXCEPT ![i] = <<p[i][1], <<>>>>] : i \in 1..Len(p)}

\* the proofs obtained from p by altering the flag or the cut of one frame
Tampered(p) == FlagFlipped(p) \cup ByteFlipped(p) \cup CutEmptied(p)

\* leaves offered in place of the genuine one: the other leaves, and digests
WrongLeaves(v) ==
    (Leaves \cup ProofLeaves \cup {digest(v)}
        \cup (IF IsSome(root) THEN {root[1]} ELSE {})) \ {v}

\* for every key present at the caller's root, with its leaf v and its
\* genuine proof p, P(v, p) holds
ForGenuineProofs(P(_, _)) ==
    \A k \in Keys \cup ProofKeys :
        LET g == GetAt(k)
        IN  IsSome(g.ret) => P(g.ret[1], ProofAt(k).ret[1])

\* the genuine proof is rejected with every other leaf
WrongLeavesRejected ==
    ForGenuineProofs(LAMBDA v, p : \A w \in WrongLeaves(v) : Rejects(root, w, Some(p)))

\* the genuine proof with one byte of one cut replaced is rejected
ByteFlipsRejected ==
    ForGenuineProofs(LAMBDA v, p : \A q \in ByteFlipped(p) : Rejects(root, v, Some(q)))

\* the genuine proof with the flag of one frame flipped is rejected
FlagFlipsRejected ==
    ForGenuineProofs(LAMBDA v, p : \A q \in FlagFlipped(p) : Rejects(root, v, Some(q)))

\* the genuine proof with the cut of one frame emptied is rejected
EmptiedCutsRejected ==
    ForGenuineProofs(LAMBDA v, p : \A q \in CutEmptied(p) : Rejects(root, v, Some(q)))

\* C4: with a collision-free hasher, verify_proof returns false for the
\* proof of a present key offered with another leaf, and for the genuine
\* leaf offered with a proof that differs from the genuine one in the flag
\* or in the cut of one frame.
C4_ProofSound ==
    /\ WrongLeavesRejected
    /\ ByteFlipsRejected
    /\ FlagFlipsRejected
    /\ EmptiedCutsRejected

\* the orders in which the members of a set can be listed
Orders(S) == {o \in [1..Cardinality(S) -> S] : Range(o) = S}

\* the permutations of 1..n
Perms(n) == Orders(1..n)

\* s rearranged by the permutation p
Permute(s, p) == [i \in 1..Len(s) |-> s[p[i]]]

\* single insert calls chained, each on the root the one before returned
RECURSIVE insert_chain(_, _, _, _)
insert_chain(st, r, ks, vs) ==
    IF Len(ks) = 0 THEN Ok(st, r)
    ELSE LET i == insert(st, r, Head(ks), Head(vs))
         IN  IF i.ok THEN insert_chain(i.st, i.ret, Tail(ks), Tail(vs)) ELSE i

\* C5: removing a key that is absent at the caller's root returns that root,
\* by remove and by removes alike, without error.
C5_RemoveAbsentKeepsRoot ==
    \A k \in Keys \ PresentKeys :
        LET d == remove(St, root, k)
        IN  /\ d.ok /\ d.ret = root
            /\ \A idx \in get_sorted_indices(<<k>>, FALSE) :
                  LET b == removes(St, root, <<k>>, idx)
                  IN  b.ok /\ b.ret = root

\* C6: inserting a key that is absent at the caller's root and removing it
\* again returns that root.
C6_InsertRemoveRestoresRoot ==
    \A k \in Keys \ PresentKeys : \A v \in Leaves :
        LET i == insert(St, root, k, v)
            d == remove(i.st, i.ret, k)
        IN  i.ok /\ d.ok /\ d.ret = root

\* the tree was built by one inserts call on the empty root
OneBatch == Len(hist) = 1 /\ hist[1].op = "inserts" /\ ~panicked

\* single removes of the keys ks from two trees, the roots equal after each
RECURSIVE RemoveChainsEqual(_, _, _, _, _)
RemoveChainsEqual(st1, r1, st2, r2, ks) ==
    IF Len(ks) = 0 THEN TRUE
    ELSE LET a == remove(st1, r1, Head(ks))
             b == remove(st2, r2, Head(ks))
         IN  /\ a.ok /\ b.ok /\ a.ret = b.ret
             /\ RemoveChainsEqual(a.st, a.ret, b.st, b.ret, Tail(ks))

\* the batch of the first operation, permuted by p and inserted into a fresh
\* tree, gives the caller's root, and the two trees stay equal under removes
SameAsPermuted(p) ==
    LET ks == hist[1].keys
        vs == hist[1].leaves
    IN  \A idx \in get_sorted_indices(Permute(ks, p), FALSE) :
            LET t == inserts(MemoryDBNew, None, Permute(ks, p), Permute(vs, p), idx)
            IN  /\ t.ok /\ t.ret = root
                /\ RemoveChainsEqual(St, root, t.st, t.ret, ks)

\* C7 as stated: every batch, of distinct keys or not, gives the same root
\* in every order.
C7_BatchOrderIndependent ==
    OneBatch => \A p \in Perms(Len(hist[1].keys)) : SameAsPermuted(p)

\* C7 amended: a batch of pairwise distinct keys gives the same root in every
\* order, and removing its keys one by one keeps the two roots equal.
C7_DistinctBatchOrderIndependent ==
    (OneBatch /\ Distinct(hist[1].keys)) =>
        \A p \in Perms(Len(hist[1].keys)) : SameAsPermuted(p)

\* a batch of three distinct keys, given in an order that is not the sorted
\* one, agreeing with its reversal
C7_Witness ==
    /\ OneBatch /\ hist[1].keys = <<K2, K0, K3>>
    /\ SameAsPermuted(<<3, 2, 1>>)

\* the tree was built by single inserts of distinct keys on the empty root
FreshInsertChain ==
    /\ Len(hist) >= 1 /\ ~panicked
    /\ \A i \in 1..Len(hist) : hist[i].op = "insert"
    /\ Distinct([i \in 1..Len(hist) |-> hist[i].keys[1]])

\* C8: single inserts of distinct keys chained from the empty root give the
\* same root in every order.
C8_InsertOrderIndependent ==
    FreshInsertChain =>
        \A p \in Perms(Len(hist)) :
            LET ks == [i \in 1..Len(hist) |-> hist[i].keys[1]]
                vs == [i \in 1..Len(hist) |-> hist[i].leaves[1]]
                t == insert_chain(MemoryDBNew, None, Permute(ks, p), Permute(vs, p))
            IN  t.ok /\ t.ret = root

\* single removes of the keys ks, the root present before each and absent
\* after the last
RECURSIVE RemoveAllEndsEmpty(_, _, _)
RemoveAllEndsEmpty(st, r, ks) ==
    IF Len(ks) = 0 THEN IsNone(r)
    ELSE /\ IsSome(r)
         /\ LET d == remove(st, r, Head(ks))
            IN  d.ok /\ RemoveAllEndsEmpty(d.st, d.ret, Tail(ks))

\* C9: the root is None exactly when no key is left, and removing the keys
\* that are left, one by one in any order or by one removes call, ends at
\* None, the root being present while a key remains.
C9_RemoveAllEndsEmpty ==
    clean =>
        /\ IsNone(root) <=> DOMAIN kv = {}
        /\ \A o \in Orders(DOMAIN kv) :
              /\ RemoveAllEndsEmpty(St, root, o)
              /\ \A idx \in get_sorted_indices(o, FALSE) :
                    LET b == removes(St, root, o, idx) IN b.ok /\ IsNone(b.ret)

\* a batch of three distinct keys, emptied in the reverse of the order given
C9_Witness ==
    /\ OneBatch /\ hist[1].keys = <<K0, K3, K1>> /\ IsSome(root)
    /\ RemoveAllEndsEmpty(St, root, <<K1, K3, K0>>)
    /\ \E idx \in get_sorted_indices(<<K0, K3, K1>>, FALSE) :
          IsNone(removes(St, root, <<K0, K3, K1>>, idx).ret)

\* C10: removing a present key makes that key absent and leaves every other
\* present key with its leaf and a verifying proof.
C10_RemoveAffectsOnlyKey ==
    \A k \in PresentKeys :
        LET d == remove(St, root, k)
        IN  /\ d.ok
            /\ IsNone(get(d.st, d.ret, k).ret)
            /\ \A j \in PresentKeys \ {k} :
                  LET g == get(d.st, d.ret, j)
                  IN  /\ g.ok /\ g.ret = GetAt(j).ret
                      /\ Accepts(d.ret, g.ret[1],
                                 get_merkle_proof(d.st, d.ret, j).ret)

\* a present key was removed and another key is left, with its leaf and a
\* verifying proof
C10_Witness ==
    /\ clean /\ LastOp = "remove" /\ DOMAIN kv # {}
    /\ IsNone(GetAt(hist[Len(hist)].keys[1]).ret)
    /\ \A j \in DOMAIN kv :
          /\ GetAt(j).ret = Some(kv[j])
          /\ Accepts(root, kv[j], ProofAt(j).ret)

\* C11: inserting a present key again with a different leaf replaces that leaf only:
\* at the new root get returns the new leaf for the key and, for every other
\* key, what it returned at the old root.
C11_ReinsertReplacesOnlyLeaf ==
    \A k \in PresentKeys : \A v \in Leaves \ {GetAt(k).ret[1]} :
        LET i == insert(St, root, k, v)
        IN  /\ i.ok
            /\ get(i.st, i.ret, k).ret = Some(v)
            /\ \A j \in Keys \ {k} :
                  LET g == get(i.st, i.ret, j)
                  IN  g.ok /\ g.ret = GetAt(j).ret

\* a key that was present with one leaf has just been inserted with the
\* other leaf, in a tree that holds a second key
C11_Witness ==
    /\ LastOp = "insert" /\ Cardinality(PresentKeys) >= 2
    /\ LET rec == hist[Len(hist)]
           k == rec.keys[1]
       IN  /\ IsSome(get(St, rec.before, k).ret)
           /\ get(St, rec.before, k).ret # Some(rec.leaves[1])
           /\ GetAt(k).ret = Some(rec.leaves[1])

\* the Bits of the units of every node in the store or in the open batch
StoredBits ==
    LET values == Range(db) \cup Range(batch_map)
        cells(bytes) == LET node == NodeFromBytes(bytes) IN {node.l, node.r}
    IN  {c[1].bits : c \in {x \in UNION {cells(bytes) : bytes \in values} : IsSome(x)}}

\* the byte x with only its bits lo..hi-1 kept (bit 0 the most significant)
MaskByte(x, lo, hi) ==
    IF hi <= lo THEN 0 ELSE (x % (2 ^ (8 - lo))) - (x % (2 ^ (8 - hi)))

Clamp8(n) == IF n < 0 THEN 0 ELSE IF n > 8 THEN 8 ELSE n

\* the Bits with the range and the bits of b, over a buffer that is zero
\* outside the range
ZeroedOutside(b) ==
    MkBits([q \in 1..Len(b.path) |->
               MaskByte(b.path[q], Clamp8(b.start - 8 * (q - 1)),
                        Clamp8(b.end - 8 * (q - 1)))],
           b.start, b.end)

\* C12: to_bytes is canonical: a Bits value the tree holds and the Bits with
\* the same range and the same bits over a buffer zeroed outside the range
\* serialize to the same bytes.
C12_ToBytesCanonical ==
    \A b \in StoredBits : BitsToBytes(b) = BitsToBytes(ZeroedOutside(b))

\* single remove calls chained, each on the root the one before returned
RECURSIVE remove_chain(_, _, _)
remove_chain(st, r, ks) ==
    IF Len(ks) = 0 THEN Ok(st, r)
    ELSE LET d == remove(st, r, Head(ks))
         IN  IF d.ok THEN remove_chain(d.st, d.ret, Tail(ks)) ELSE d

\* the indices of keys in ascending key order, equal keys in the order given
AscendingOrder(keys) ==
    CHOOSE p \in Perms(Len(keys)) :
        \A i, j \in 1..Len(keys) :
            i < j => \/ HashLess(keys[p[i]], keys[p[j]])
                     \/ keys[p[i]] = keys[p[j]] /\ p[i] < p[j]

\* the operations of h that completed, run on a fresh handle that never
\* opens a batch: prepare and commit are skipped, a batch call is the chain
\* of single calls in ascending key order, an aborted call did nothing
RECURSIVE UnbatchedRun(_)
UnbatchedRun(h) ==
    IF Len(h) = 0 THEN Ok(MemoryDBNew, None)
    ELSE LET prev == UnbatchedRun(SubSeq(h, 1, Len(h) - 1))
             rec == h[Len(h)]
         IN  IF ~prev.ok THEN prev
             ELSE IF rec.op = "insert"
             THEN insert(prev.st, rec.before, rec.keys[1], rec.leaves[1])
             ELSE IF rec.op = "remove"
             THEN remove(prev.st, rec.before, rec.keys[1])
             ELSE IF rec.op = "inserts"
             THEN LET p == AscendingOrder(rec.keys)
                  IN  insert_chain(prev.st, rec.before, Permute(rec.keys, p),
                                   Permute(rec.leaves, p))
             ELSE IF rec.op = "removes"
             THEN remove_chain(prev.st, rec.before,
                               Permute(rec.keys, AscendingOrder(rec.keys)))
             ELSE prev

\* C13: a batch is atomic: the backing store never holds a write of a batch
\* that was aborted, at that point or after any later operation; it holds
\* only entries that the completed operations wrote.
C13_AbortedBatchInvisible ==
    DOMAIN db \subseteq DOMAIN UnbatchedRun(hist).st.db

\* What the backend calls of h amount to, by the contract of the Database
\* trait: the store, the pending writes of the open batch (<<"put", v>> or
\* <<"delete">> per key, the later call winning) and whether a batch is open.
RECURSIVE Pending(_)
Pending(h) ==
    IF Len(h) = 0 THEN [store |-> EmptyMap, over |-> EmptyMap, open |-> FALSE]
    ELSE LET prev == Pending(SubSeq(h, 1, Len(h) - 1))
             rec == h[Len(h)]
         IN  IF rec.op = "put"
             THEN IF prev.open
                  THEN [prev EXCEPT !.over =
                           MapInsert(prev.over, rec.keys[1], <<"put", rec.leaves[1]>>)]
                  ELSE [prev EXCEPT !.store =
                           MapInsert(prev.store, rec.keys[1], rec.leaves[1])]
             ELSE IF rec.op = "delete"
             THEN IF prev.open
                  THEN [prev EXCEPT !.over =
                           MapInsert(prev.over, rec.keys[1], <<"delete">>)]
                  ELSE [prev EXCEPT !.store = MapRemove(prev.store, rec.keys[1])]
             ELSE IF rec.op = "init_batch"
             THEN IF prev.open THEN prev
                  ELSE [prev EXCEPT !.over = EmptyMap, !.open = TRUE]
             ELSE IF rec.op = "finish_batch"
             THEN IF ~prev.open THEN prev
                  ELSE [store |->
                           [k \in {x \in DOMAIN prev.store \cup DOMAIN prev.over :
                                      x \in DOMAIN prev.over => prev.over[x][1] = "put"}
                              |-> IF k \in DOMAIN prev.over THEN prev.over[k][2]
                                  ELSE prev.store[k]],
                        over |-> EmptyMap, open |-> FALSE]
             ELSE prev

\* C14: while a batch is open, get of a key whose last call in the batch was
\* a put returns the value of that put.
C14_ReadYourWrites ==
    LET p == Pending(hist)
    IN  p.open =>
            \A k \in DOMAIN p.over :
                p.over[k][1] = "put" => DbGet(St, k) = Some(p.over[k][2])

\* a batch is open; a key the store holds was deleted and then put in the
\* batch with another value, and get returns the value put
C14_Witness ==
    LET p == Pending(hist)
    IN  /\ batch_on
        /\ \E k \in DOMAIN db \cap DOMAIN p.over :
               /\ p.over[k][1] = "put" /\ p.over[k][2] # db[k]
               /\ DbGet(St, k) = Some(p.over[k][2])
               /\ \E i, j \in 1..Len(hist) :
                      /\ i < j /\ hist[i].op = "init_batch"
                      /\ hist[j].op = "delete" /\ hist[j].keys = <<k>>

\* C15: while a batch is open, get of a key whose last call in the batch was
\* a delete returns absent, whatever the store holds for it.
C15_DeletesShadowStore ==
    LET p == Pending(hist)
    IN  p.open =>
            \A k \in DOMAIN p.over :
                p.over[k][1] = "delete" => DbGet(St, k) = None

\* C16 on MemoryDB: the store is what the calls outside a batch and the batches finished
\* so far amount to: put and delete inside an open batch leave it as it is,
\* finish_batch applies the pending puts and deletes and leaves the cache
\* empty and the batch closed, and outside a batch put and delete act on the
\* store at once.
C16_WritesDeferred ==
    LET p == Pending(hist)
    IN  /\ db = p.store
        /\ batch_on = p.open
        /\ ~batch_on => batch_map = EmptyMap /\ batch_set = {}

\* a batch that deleted a key of the store and put another key has just been
\* finished: the store holds the put key only and the cache is empty
C16_Witness ==
    /\ OpNames = <<"put", "init_batch", "delete", "put", "finish_batch">>
    /\ hist[3].keys = hist[1].keys /\ hist[4].keys # hist[1].keys
    /\ db = (hist[4].keys[1] :> hist[4].leaves[1])
    /\ ~batch_on /\ batch_map = EmptyMap /\ batch_set = {}

\* C16: on every backend the store is what the calls outside a batch and the
\* batches finished so far amount to, and finish_batch leaves the write
\* cache empty and the batch closed.  Stated here for RocksDB, whose cache
\* is the MemCache and whose pending writes are the WriteBatch.
C16_RocksWritesDeferred ==
    LET p == Pending(hist)
    IN  /\ db = p.store
        /\ batch_on = p.open
        /\ (hist # <<>> /\ hist[Len(hist)].op = "finish_batch") =>
              /\ ~batch_on /\ wbatch = <<>>
              /\ batch_map = EmptyMap /\ batch_set = {}

\* the part of C16 that RocksDB keeps: the store and the batch flag follow
\* the deferred-write semantics and finish_batch leaves no pending write
RocksStoreDeferred ==
    LET p == Pending(hist)
    IN  /\ db = p.store
        /\ batch_on = p.open
        /\ ~batch_on => wbatch = <<>>

\* C17: batch mode is transparent: the run gives the roots and leaves that
\* the same operations give on a handle that never opens a batch, a batch
\* call being the chain of single calls in ascending key order; and when no
\* batch is open the store holds exactly the entries of that run.
C17_BatchTransparent ==
    LET u == UnbatchedRun(hist)
    IN  /\ u.ok /\ ~panicked
        /\ root = u.ret
        /\ \A k \in Keys : GetAt(k) = [get(u.st, u.ret, k) EXCEPT !.st = St]
        /\ ~batch_on => db = u.st.db

\* an insert was made between prepare and commit, and the store holds it
C17_Witness ==
    /\ OpNames = <<"prepare", "insert", "commit">>
    /\ IsSome(root) /\ root[1] \in DOMAIN db
    /\ GetAt(hist[2].keys[1]).ret = Some(hist[2].leaves[1])

\* C18: a step in which inserts or removes returns closes the batch: no
\* batch is open after it, the cache is empty, every write that was pending
\* in a batch the caller had opened is in the store, and a commit after it
\* changes nothing.
C18_BatchCallsCommit ==
    [][(/\ hist' # hist
        /\ hist'[Len(hist')].op \in {"inserts", "removes"}
        /\ ~panicked')
       => /\ ~batch_on' /\ batch_map' = EmptyMap /\ batch_set' = {}
          /\ batch_on => \A k \in DOMAIN batch_map :
                             k \in DOMAIN db' /\ db'[k] = batch_map[k]
          /\ commit(St') = St']_vars

\* the caller opened a batch and inserted a key; then inserts returned: the
\* batch is closed and the node of the caller's insert is in the store
C18_Witness ==
    /\ OpNames = <<"prepare", "insert", "inserts">>
    /\ ~batch_on /\ batch_map = EmptyMap
    /\ hist[3].before[1] \in DOMAIN db
    /\ IsSome(root) /\ root[1] \in DOMAIN db

\* C19: after set_headroot(r), for every r the caller may pass, the empty
\* root included, get_headroot returns r.
C19_HeadrootRoundTrip ==
    LastOp = "set_headroot" =>
        LET h == get_headroot(St)
        IN  h.ok /\ h.ret = hist[Len(hist)].leaves

\* C20: a step of any operation other than set_headroot leaves the value
\* get_headroot returns as it was.
C20_HeadrootNotImplicit ==
    [][(hist' # hist /\ hist'[Len(hist')].op # "set_headroot")
       => /\ get_headroot(St').ok
          /\ get_headroot(St').ret = get_headroot(St).ret]_vars

\* a root was published, then the tree went on to another root: the head
\* root is still the published one
C20_Witness ==
    /\ OpNames = <<"insert", "set_headroot", "insert">>
    /\ IsSome(hist[2].leaves) /\ hist[2].leaves = hist[2].before
    /\ get_headroot(St).ret = hist[2].leaves
    /\ root # hist[2].leaves

\* the roots the tree has returned to the caller so far
ReturnedRoots == {hist[i].before : i \in 1..Len(hist)} \cup {root}

\* C21: historic roots stay valid: a step of any operation, an aborted batch
\* included, deletes no entry of the store and changes none, and at every
\* root returned so far get and get_merkle_proof give for every key what
\* they gave before the step.
C21_HistoricRootsValid ==
    [][/\ \A x \in DOMAIN db : x \in DOMAIN db' /\ db'[x] = db[x]
       /\ \A r \in ReturnedRoots : \A k \in Keys :
             LET g == get(St, r, k)
                 h == get(St', r, k)
             IN  /\ g.ok /\ h.ok /\ h.ret = g.ret
                 /\ get_merkle_proof(St', r, k).ret = get_merkle_proof(St, r, k).ret]_vars

\* a key was inserted, then a batch was aborted after its first insert: the
\* root of the first insert still gives the key's leaf
C21_Witness ==
    /\ OpNames = <<"insert", "inserts_aborted">>
    /\ batch_on /\ batch_map # EmptyMap
    /\ IsSome(root) /\ root = hist[2].before
    /\ get(St, root, hist[1].keys[1]).ret = Some(hist[1].leaves[1])

\* the serialized nodes in the store or in the open batch
StoredBytes == Range(db) \cup Range(batch_map)

\* C22: every Hard node written has the child whose path starts with bit 0
\* first and the child whose path starts with bit 1 second, and Node::new
\* on its two cells serializes to the same bytes in either order.
C22_HardNodeNormalForm ==
    \A bytes \in StoredBytes :
        LET node == NodeFromBytes(bytes)
        IN  node.kind = "Hard" =>
                /\ ~BitsFirst(node.l[1].bits)
                /\ BitsFirst(node.r[1].bits)
                /\ NodeToBytes(NodeNew(node.l, node.r)) = bytes
                /\ NodeToBytes(NodeNew(node.r, node.l)) = bytes

\* a key starting with bit 1 was inserted, then a key starting with bit 0
\* was set aside next to it: Node::new got the bit-1 cell first, and the
\* root is a Hard node
C22_Witness ==
    /\ OpNames = <<"insert", "insert">>
    /\ bit(hist[1].keys[1], 0) /\ ~bit(hist[2].keys[1], 0)
    /\ IsSome(root) /\ NodeFromBytes(DbGet(St, root[1])[1]).kind = "Hard"

\* the lengths of the child paths followed from the node h down to the leaf
\* of key, pos bits of the key being consumed already; a path that is not a
\* prefix of the key's remaining bits, or a missing node, ends it with -1
RECURSIVE PathLengths(_, _, _, _)
PathLengths(st, h, key, pos) ==
    LET got == DbGet(st, h)
    IN  IF IsNone(got) \/ pos >= 8 * Len(key) THEN <<-1>>
        ELSE LET cell == cells_from_bytes(got[1], bit(key, pos))[1]
                 b == cell[1].bits
                 len == b.end - b.start
             IN  IF IsNone(cell) THEN <<-1>>
                 ELSE IF \/ pos + len > 8 * Len(key)
                         \/ \E i \in 0..(len - 1) :
                               bit(b.path, b.start + i) # bit(key, pos + i)
                 THEN <<-1>>
                 ELSE IF pos + len = 8 * Len(key) THEN <<len>>
                 ELSE <<len>> \o PathLengths(st, cell[1].hash, key, pos + len)

RECURSIVE SeqSum(_)
SeqSum(s) == IF Len(s) = 0 THEN 0 ELSE Head(s) + SeqSum(Tail(s))

\* C23: after inserts and removes of present keys, for every key the caller
\* has put and not removed the child paths followed from the root are each a
\* prefix of the key's remaining bits and their lengths add up to the key's
\* 256 bits.
C23_PathsCoverKey ==
    clean =>
        \A k \in DOMAIN kv :
            /\ IsSome(root)
            /\ LET lens == PathLengths(St, root[1], k, 0)
               IN  /\ \A i \in 1..Len(lens) : lens[i] >= 0
                   /\ SeqSum(lens) = 8 * HASH_LEN

\* after a remove of a present key a key is left whose paths from the root
\* are 7 and 249 bits long
C23_Witness ==
    /\ clean /\ LastOp = "remove" /\ IsSome(root)
    /\ \E k \in DOMAIN kv : PathLengths(St, root[1], k, 0) = <<7, 249>>

\* the entries of the store and of the open batch, as key-value pairs
StoredEntries ==
    {<<x, db[x]>> : x \in DOMAIN db} \cup {<<x, batch_map[x]>> : x \in DOMAIN batch_map}

\* C24: every entry other than the head root is stored under the digest of
\* its value, the value is the serialization of a node, and the root the
\* caller got back is the key of a stored node.
C24_ContentAddressed ==
    /\ \A e \in StoredEntries :
          e[1] # ROOT_KEY =>
              /\ e[1] = digest(e[2])
              /\ NodeFromBytes(e[2]).kind \in {"Soft", "Hard"}
              /\ NodeToBytes(NodeFromBytes(e[2])) = e[2]
    /\ IsSome(root) => /\ IsSome(DbGet(St, root[1]))
                       /\ root[1] = digest(DbGet(St, root[1])[1])

\* a head root is stored next to the nodes of the tree, and an insert or a
\* remove has just returned a root other than the head root
C24_Witness ==
    /\ LastOp \in {"insert", "remove"} /\ IsSome(root)
    /\ ROOT_KEY \in DOMAIN db
    /\ Cardinality(DOMAIN db) >= 3
    /\ root[1] # db[ROOT_KEY]

\* the node stored under h
NodeAt(h) == NodeFromBytes(DbGet(St, h)[1])

\* the tree holds exactly two keys that differ only in their last bit, put
\* there by inserts alone
TwoKeysLastBit ==
    /\ DOMAIN kv = {K0, K1}
    /\ \A i \in 1..Len(hist) : hist[i].op \in {"insert", "inserts"}

\* C25 as stated: the tree of two keys that differ only in their last bit
\* has depth 2, and the two child paths of its inner Hard node are 255 bits
\* and 1 bit long.
C25_InnerPaths255And1 ==
    TwoKeysLastBit =>
        /\ IsSome(root)
        /\ LET top == NodeAt(root[1])
               inner == NodeAt(top.l[1].hash)
           IN  /\ inner.kind = "Hard"
               /\ {BitsLength(inner.l[1].bits), BitsLength(inner.r[1].bits)} = {255, 1}

\* C25 amended: the tree of two keys that differ only in their last bit has
\* depth 2: the root is a Soft node whose child path is the 255 common bits,
\* and it leads to a Hard node whose two child paths are 1 bit long each and
\* end in the two leaves.
C25_Soft255OverHard1And1 ==
    TwoKeysLastBit =>
        /\ IsSome(root)
        /\ LET top == NodeAt(root[1])
               inner == NodeAt(top.l[1].hash)
           IN  /\ top.kind = "Soft"
               /\ BitsLength(top.l[1].bits) = 255
               /\ inner.kind = "Hard"
               /\ BitsLength(inner.l[1].bits) = 1
               /\ BitsLength(inner.r[1].bits) = 1
               /\ inner.l[1].hash = kv[K0]
               /\ inner.r[1].hash = kv[K1]

\* the key ending in bit 1 was inserted first, the key ending in bit 0 after
\* it, with different leaves
C25_Witness ==
    /\ OpNames = <<"insert", "insert">>
    /\ hist[1].keys = <<K1>> /\ hist[2].keys = <<K0>>
    /\ DOMAIN kv = {K0, K1} /\ kv[K0] # kv[K1]
    /\ IsSome(root) /\ NodeAt(root[1]).kind = "Soft"

\* one more than any number of descent levels the key width allows
TooDeep == 8 * HASH_LEN + 1

\* the number of nodes that find_key, put, delete_key and gen_proof visit on
\* their way down from the node h with the key bits left; TooDeep when a node
\* is missing or a step does not shorten the bits left
RECURSIVE DescentLevels(_, _, _)
DescentLevels(st, h, bits) ==
    LET got == DbGet(st, h)
    IN  IF IsNone(got) THEN TooDeep
        ELSE LET unit == cells_from_bytes(got[1], BitsFirst(bits))[1][1]
                 n == len_common_bits(unit.bits, bits)
             IN  IF n = BitsLength(bits) THEN 1
                 ELSE IF n = BitsLength(unit.bits)
                 THEN IF BitsLength(BitsDrop(bits, n)) >= BitsLength(bits) THEN TooDeep
                      ELSE 1 + DescentLevels(st, unit.hash, BitsDrop(bits, n))
                 ELSE 1

\* C26: every child path stored in a node is non-empty, and from every root
\* returned so far the descent for any key visits at most 256 nodes, each
\* step shortening the key bits left.
C26_DescentBounded ==
    /\ \A b \in StoredBits : BitsLength(b) >= 1
    /\ \A r \in ReturnedRoots : \A k \in Keys :
          IsSome(r) => DescentLevels(St, r[1], BitsNew(k)) <= 8 * HASH_LEN

\* a tree of three keys in which the descent for one of them visits three
\* nodes
C26_Witness ==
    /\ Cardinality(DOMAIN kv) = 3 /\ IsSome(root)
    /\ \E k \in DOMAIN kv : DescentLevels(St, root[1], BitsNew(k)) = 3

\* the leaves stored in the tree at the caller's root
LeavesAtRoot == {GetAt(k).ret[1] : k \in PresentKeys}

\* C27: verify_proof accepts only leaves of the tree: the digest of the inner
\* node that the first j frames of a genuine proof lead to, offered as the
\* leaf with those j frames as the proof, is rejected.
C27_OnlyGenuineLeaves ==
    \A k \in PresentKeys :
        LET p == ProofAt(k).ret[1]
            v == GetAt(k).ret[1]
        IN  \A j \in 1..(Len(p) - 1) :
                LET x == verify_fold(v, SubSeq(p, j + 1, Len(p)), Len(p) - j).ret
                IN  x \notin LeavesAtRoot =>
                        Rejects(root, x, Some(SubSeq(p, 1, j)))

\* C28: insert is idempotent: inserting a pair twice gives the root of
\* inserting it once, and inserting a pair that is in the tree gives the
\* root the caller holds.
C28_InsertIdempotent ==
    \A k \in Keys : \A v \in Leaves :
        LET a == insert(St, root, k, v)
            b == insert(a.st, a.ret, k, v)
        IN  /\ a.ok /\ b.ok
            /\ b.ret = a.ret
            /\ GetAt(k).ret = Some(v) => a.ret = root

\* a pair that was in a tree of several keys has just been inserted again,
\* and the root the caller got back is the root it passed
C28_Witness ==
    /\ LastOp = "insert" /\ IsSome(root) /\ Cardinality(PresentKeys) >= 2
    /\ LET rec == hist[Len(hist)]
       IN  /\ rec.before = root
           /\ GetAt(rec.keys[1]).ret = Some(rec.leaves[1])

\* the put and delete calls of h made in program order on a MemoryDB that
\* never opens a batch
RECURSIVE UnbatchedDb(_)
UnbatchedDb(h) ==
    IF Len(h) = 0 THEN MemoryDBNew
    ELSE LET prev == UnbatchedDb(SubSeq(h, 1, Len(h) - 1))
             rec == h[Len(h)]
         IN  IF rec.op = "put" THEN DbPut(prev, rec.keys[1], rec.leaves[1])
             ELSE IF rec.op = "delete" THEN DbDelete(prev, rec.keys[1])
             ELSE prev

\* C29: commit is last-call-wins per key: whenever no batch is open, after
\* finish_batch in particular, the store equals the store that the same put
\* and delete calls give in program order without a batch.
C29_CommitLastCallWins ==
    ~batch_on => db = UnbatchedDb(hist).db

\* a batch that put a key, deleted it and put it again has been finished:
\* the store holds the value put last
C29_Witness ==
    /\ OpNames = <<"init_batch", "put", "delete", "put", "finish_batch">>
    /\ hist[2].keys = hist[3].keys /\ hist[4].keys = hist[3].keys
    /\ hist[2].leaves # hist[4].leaves
    /\ db = (hist[4].keys[1] :> hist[4].leaves[1])

\* the node h, reached with pos key bits consumed, is readable, and so is
\* every node below it: a unit whose path ends before the key width refers
\* to a node, a unit whose path ends at the key width holds a leaf
RECURSIVE Resolvable(_, _, _)
Resolvable(st, h, pos) ==
    LET got == DbGet(st, h)
    IN  /\ IsSome(got)
        /\ LET node == NodeFromBytes(got[1])
           IN  /\ node.kind \in {"Soft", "Hard"}
               /\ \A c \in {x \in {node.l, node.r} : IsSome(x)} :
                     LET next == pos + BitsLength(c[1].bits)
                     IN  \/ next = 8 * HASH_LEN
                         \/ next < 8 * HASH_LEN /\ Resolvable(st, c[1].hash, next)

\* C30: every root returned so far is fully resolvable through the backend,
\* from the cache while the batch is open and from the store after commit,
\* and get, get_merkle_proof, insert and remove at the caller's root never
\* hit a missing node.
C30_NoDanglingReferences ==
    /\ ~panicked
    /\ \A r \in ReturnedRoots : IsSome(r) => Resolvable(St, r[1], 0)
    /\ \A k \in Keys :
          /\ GetAt(k).ok /\ ProofAt(k).ok
          /\ insert(St, root, k, LA).ok
          /\ remove(St, root, k).ok

\* a batch is open: the caller's root of two keys is in the cache only, the
\* root returned before it is in the store, and both resolve
C30_Witness ==
    /\ OpNames = <<"insert", "prepare", "insert">>
    /\ IsSome(root) /\ root[1] \in DOMAIN batch_map /\ root[1] \notin DOMAIN db
    /\ hist[3].before[1] \in DOMAIN db
    /\ Cardinality(DOMAIN kv) = 2
    /\ Resolvable(St, root[1], 0) /\ Resolvable(St, hist[3].before[1], 0)

====
